---- MODULE Spec2Model ----
(***************************************************************************)
(* Model of main() of danetls.c: DNS evidence, authentication-mode         *)
(* selection, the per-address connection loop and the exit status.         *)
(*                                                                         *)
(* Library and collaborator calls (ldns resolution, OpenSSL, sockets,      *)
(* do_starttls) are modelled by the set of results the code distinguishes. *)
(* SSL_CTX_new() is taken to succeed (the code does not test its result).  *)
(* A call on a TLS session that was already SSL_free()d is undefined       *)
(* behaviour: it either returns any of its results or the process dies     *)
(* (pc = "crashed").                                                       *)
(***************************************************************************)
EXTENDS Integers, Sequences, FiniteSets, TLC

\* ---- bounds of the model ----
MaxAddr == 2
MaxTlsa == 2
MaxShutdown == 2

\* ---- enum AUTH_MODE ----
MODE_DANE == "MODE_DANE"
MODE_PKIX == "MODE_PKIX"
MODE_BOTH == "MODE_BOTH"
AuthModes == {MODE_DANE, MODE_PKIX, MODE_BOTH}

VARIABLES
    pc,                 \* position in main()
    auth_mode,          \* global auth_mode (set by parse_options)
    starttls,           \* TRUE iff starttls != STARTTLS_NONE
    naddr,              \* length of the list "addresses"
    ntlsa,              \* length of the list "tlsa_rdata_list" (0 = NULL)
    tlsa_rdata_list,    \* per record: TRUE iff OpenSSL can use the record
    tlsa_authenticated,
    v4_authenticated,
    v6_authenticated,
    dns_bogus_or_indeterminate,
    attempt_dane,
    count_success,
    count_fail,
    count_tlsa_usable,
    gaip,               \* index of the current address (0 before the loop)
    rp,                 \* index of the current TLSA record in the inner loop
    ctx,                \* "null" | "live" | "freed"
    ssl,                \* "none" | "live" | "freed"
    sock,               \* "none" | "open" | "closed"
    exit_status,        \* -1 until main() returns
    fatal,              \* which "goto cleanup" was taken ("none" if none)
    opened,             \* sockets created in the whole run
    contacted,          \* connect() calls in the whole run
    freed,              \* [addr, tlsa, ctx]: release calls made at cleanup
    uaf,                \* some call used a session after SSL_free
    uac,                \* some call used a socket after close
    bound,              \* policies bound to sessions so far: "dane", "pkix"
    it                  \* bookkeeping of the current loop iteration

vars == <<pc, auth_mode, starttls, naddr, ntlsa, tlsa_rdata_list,
          bound, tlsa_authenticated,
          v4_authenticated, v6_authenticated, dns_bogus_or_indeterminate,
          attempt_dane, count_success, count_fail, count_tlsa_usable,
          gaip, rp, ctx, ssl, sock, exit_status, fatal, opened, contacted,
          freed, uaf, uac, it>>

config == <<auth_mode, starttls>>
evidence == <<naddr, ntlsa, tlsa_rdata_list, tlsa_authenticated,
              v4_authenticated,
              v6_authenticated, dns_bogus_or_indeterminate>>
counters == <<count_success, count_fail, count_tlsa_usable>>
session == <<ssl, sock, uaf, uac, it>>
totals == <<opened, contacted, freed, bound>>

\* Bookkeeping of one iteration of the address loop.
ItInit ==
    [closes    |-> 0,      \* close(sock) calls
     frees     |-> 0,      \* SSL_free(ssl) calls
     created   |-> FALSE,  \* SSL_new returned a session
     sbumps    |-> 0,      \* count_success++ executed
     fbumps    |-> 0,      \* count_fail++ executed
     dane_on   |-> FALSE,  \* SSL_dane_enable succeeded
     host      |-> FALSE,  \* SSL_set1_host succeeded
     sni       |-> FALSE,  \* SSL_set_tlsext_host_name called
     adds      |-> 0,      \* SSL_dane_tlsa_add calls
     usable    |-> 0,      \* SSL_dane_tlsa_add calls that returned > 0
     bindfail  |-> FALSE,  \* a binding step failed
     late      |-> FALSE,  \* add/STARTTLS/handshake after a binding failure
     negotiated |-> "no",  \* do_starttls: "no" | "ok" | "failed"
     connected |-> FALSE,  \* connect() succeeded
     handshakes |-> 0,     \* SSL_connect calls
     shaken    |-> FALSE,  \* SSL_connect returned > 0
     early     |-> FALSE,  \* SSL_connect before connect/STARTTLS success
     verified  |-> "no",   \* SSL_get_verify_result: "no" | "ok" | "bad"
     peername  |-> "unread", \* SSL_get0_peername: "present" | "absent"
     depth     |-> -2,     \* SSL_get0_dane_authority result (-2 = unread)
     shutdowns |-> 0]      \* SSL_shutdown calls

Init ==
    /\ pc = "start"
    /\ auth_mode \in AuthModes
    /\ starttls \in BOOLEAN
    /\ naddr = 0
    /\ ntlsa = 0
    /\ tlsa_rdata_list = <<>>
    /\ bound = {}
    /\ tlsa_authenticated = FALSE
    /\ v4_authenticated = FALSE
    /\ v6_authenticated = FALSE
    /\ dns_bogus_or_indeterminate = FALSE
    /\ attempt_dane = FALSE
    /\ count_success = 0
    /\ count_fail = 0
    /\ count_tlsa_usable = 0
    /\ gaip = 0
    /\ rp = 0
    /\ ctx = "null"
    /\ ssl = "none"
    /\ sock = "none"
    /\ exit_status = -1
    /\ fatal = "none"
    /\ opened = 0
    /\ contacted = 0
    /\ freed = [addr |-> 0, tlsa |-> 0, ctx |-> 0]
    /\ uaf = FALSE
    /\ uac = FALSE
    /\ it = ItInit

\* ---- lines 247-249: get_resolver() returned NULL ----
ResolverFail ==
    /\ pc = "start"
    /\ pc' = "cleanup"
    /\ fatal' = "resolver"
    /\ UNCHANGED <<config, evidence, attempt_dane, counters, gaip, rp, ctx,
                   session, exit_status, totals>>

\* ---- lines 247-255: address and TLSA queries ----
Resolve ==
    /\ pc = "start"
    /\ \E n \in 0..MaxAddr,
          t \in (IF auth_mode # MODE_PKIX THEN 0..MaxTlsa ELSE {0}),
          ta \in BOOLEAN, a4 \in BOOLEAN, a6 \in BOOLEAN, bogus \in BOOLEAN :
          /\ naddr' = n
          /\ ntlsa' = t
          /\ tlsa_rdata_list' \in [1..t -> BOOLEAN]
          /\ tlsa_authenticated' = ta
          /\ v4_authenticated' = a4
          /\ v6_authenticated' = a6
          /\ dns_bogus_or_indeterminate' = bogus
    /\ pc' = "check_bogus"
    /\ UNCHANGED <<config, attempt_dane, counters, gaip, rp, ctx, session,
                   exit_status, fatal, totals>>

\* Variant of CheckBogus in which PKIX-only runs ignore the flag.
CheckBogus_pkix_ignores ==
    /\ pc = "check_bogus"
    /\ IF dns_bogus_or_indeterminate /\ auth_mode # MODE_PKIX
         THEN pc' = "cleanup" /\ fatal' = "bogus"
         ELSE pc' = "select" /\ fatal' = fatal
    /\ UNCHANGED <<config, evidence, attempt_dane, counters, gaip, rp, ctx,
                   session, exit_status, totals>>

\* ---- lines 261-262 ----
CheckBogus ==
    /\ pc = "check_bogus"
    /\ IF dns_bogus_or_indeterminate
         THEN pc' = "cleanup" /\ fatal' = "bogus"
         ELSE pc' = "select" /\ fatal' = fatal
    /\ UNCHANGED <<config, evidence, attempt_dane, counters, gaip, rp, ctx,
                   session, exit_status, totals>>

\* Variant of decide that tests v4_authenticated only.
decide_v4_only(mode, tlsaEmpty, ta, a4, a6) ==
    IF mode = MODE_DANE \/ mode = MODE_BOTH
      THEN IF tlsaEmpty
             THEN [attempt |-> FALSE, fatal |-> (mode = MODE_DANE)]
           ELSE IF ~ta
             THEN [attempt |-> FALSE, fatal |-> (mode = MODE_DANE)]
           ELSE IF ~a4
             THEN [attempt |-> FALSE, fatal |-> (mode = MODE_DANE)]
           ELSE [attempt |-> TRUE, fatal |-> FALSE]
      ELSE [attempt |-> FALSE, fatal |-> FALSE]

\* Variant of decide without the "goto cleanup" of line 281.
decide_no_addr_goto(mode, tlsaEmpty, ta, a4, a6) ==
    IF mode = MODE_DANE \/ mode = MODE_BOTH
      THEN IF tlsaEmpty
             THEN [attempt |-> FALSE, fatal |-> (mode = MODE_DANE)]
           ELSE IF ~ta
             THEN [attempt |-> FALSE, fatal |-> (mode = MODE_DANE)]
           ELSE IF ~a4 \/ ~a6
             THEN [attempt |-> FALSE, fatal |-> FALSE]
           ELSE [attempt |-> TRUE, fatal |-> FALSE]
      ELSE [attempt |-> FALSE, fatal |-> FALSE]

\* Variant of decide whose "goto cleanup" of line 277 is unconditional.
decide_insecure_tlsa_fatal(mode, tlsaEmpty, ta, a4, a6) ==
    IF mode = MODE_DANE \/ mode = MODE_BOTH
      THEN IF tlsaEmpty
             THEN [attempt |-> FALSE, fatal |-> (mode = MODE_DANE)]
           ELSE IF ~ta
             THEN [attempt |-> FALSE, fatal |-> TRUE]
           ELSE IF ~a4 \/ ~a6
             THEN [attempt |-> FALSE, fatal |-> (mode = MODE_DANE)]
           ELSE [attempt |-> TRUE, fatal |-> FALSE]
      ELSE [attempt |-> FALSE, fatal |-> FALSE]

\* ---- lines 270-285: the mode selection, as the code nests it ----
decide(mode, tlsaEmpty, ta, a4, a6) ==
    IF mode = MODE_DANE \/ mode = MODE_BOTH
      THEN IF tlsaEmpty
             THEN [attempt |-> FALSE, fatal |-> (mode = MODE_DANE)]
           ELSE IF ~ta
             THEN [attempt |-> FALSE, fatal |-> (mode = MODE_DANE)]
           ELSE IF ~a4 \/ ~a6
             THEN [attempt |-> FALSE, fatal |-> (mode = MODE_DANE)]
           ELSE [attempt |-> TRUE, fatal |-> FALSE]
      ELSE [attempt |-> FALSE, fatal |-> FALSE]

SelectMode ==
    /\ pc = "select"
    /\ LET d == decide(auth_mode, ntlsa = 0, tlsa_authenticated,
                       v4_authenticated, v6_authenticated)
       IN /\ attempt_dane' = d.attempt
          /\ IF d.fatal
               THEN pc' = "cleanup" /\ fatal' = "dane_evidence"
               ELSE pc' = "ctx_init" /\ fatal' = fatal
    /\ UNCHANGED <<config, evidence, counters, gaip, rp, ctx, session,
                   exit_status, totals>>

\* ---- lines 310-326: SSL_CTX_new and the trust store ----
CtxInit ==
    /\ pc = "ctx_init"
    /\ ctx' = "live"
    /\ \E loaded \in BOOLEAN :
          IF loaded
            THEN pc' = "ctx_dane" /\ fatal' = fatal
            ELSE pc' = "cleanup" /\ fatal' = "castore"
    /\ UNCHANGED <<config, evidence, attempt_dane, counters, gaip, rp,
                   session, exit_status, totals>>

\* ---- lines 335-338, then the loop initialisation of line 345 ----
CtxDaneEnable ==
    /\ pc = "ctx_dane"
    /\ \E ok \in BOOLEAN :
          IF ok
            THEN pc' = "loop_test" /\ gaip' = 1 /\ fatal' = fatal
            ELSE pc' = "cleanup" /\ gaip' = gaip /\ fatal' = "ctx_dane"
    /\ UNCHANGED <<config, evidence, attempt_dane, counters, rp, ctx,
                   session, exit_status, totals>>

\* ---- line 345: loop condition "gaip != NULL" ----
LoopTest ==
    /\ pc = "loop_test"
    /\ pc' = IF gaip <= naddr THEN "socket" ELSE "cleanup"
    /\ UNCHANGED <<config, evidence, attempt_dane, counters, gaip, rp, ctx,
                   session, exit_status, fatal, totals>>

\* ---- lines 359-364: socket() ----
Socket ==
    /\ pc = "socket"
    /\ \E ok \in BOOLEAN :
          IF ok
            THEN /\ sock' = "open"
                 /\ opened' = opened + 1
                 /\ it' = ItInit
                 /\ count_fail' = count_fail
                 /\ gaip' = gaip
                 /\ pc' = "connect"
            ELSE /\ sock' = "none"
                 /\ opened' = opened
                 /\ it' = [ItInit EXCEPT !.fbumps = 1]
                 /\ count_fail' = count_fail + 1
                 /\ gaip' = gaip + 1
                 /\ pc' = "loop_test"
    /\ UNCHANGED <<config, evidence, attempt_dane, count_success,
                   count_tlsa_usable, rp, ctx, ssl, uaf, uac, exit_status,
                   fatal, contacted, freed, bound>>

\* Variant of Connect whose failure branch lacks "count_fail++".
Connect_uncounted ==
    /\ pc = "connect"
    /\ contacted' = contacted + 1
    /\ \E ok \in BOOLEAN :
          IF ok
            THEN /\ it' = [it EXCEPT !.connected = TRUE]
                 /\ UNCHANGED <<sock, count_fail, gaip>>
                 /\ pc' = "ssl_new"
            ELSE /\ sock' = "closed"
                 /\ it' = [it EXCEPT !.closes = @ + 1]
                 /\ count_fail' = count_fail
                 /\ gaip' = gaip + 1
                 /\ pc' = "loop_test"
    /\ UNCHANGED <<config, evidence, attempt_dane, count_success,
                   count_tlsa_usable, rp, ctx, ssl, uaf, uac, exit_status,
                   fatal, opened, freed, bound>>

\* ---- lines 366-371: connect() ----
Connect ==
    /\ pc = "connect"
    /\ contacted' = contacted + 1
    /\ \E ok \in BOOLEAN :
          IF ok
            THEN /\ it' = [it EXCEPT !.connected = TRUE]
                 /\ UNCHANGED <<sock, count_fail, gaip>>
                 /\ pc' = "ssl_new"
            ELSE /\ sock' = "closed"
                 /\ it' = [it EXCEPT !.closes = @ + 1, !.fbumps = @ + 1]
                 /\ count_fail' = count_fail + 1
                 /\ gaip' = gaip + 1
                 /\ pc' = "loop_test"
    /\ UNCHANGED <<config, evidence, attempt_dane, count_success,
                   count_tlsa_usable, rp, ctx, ssl, uaf, uac, exit_status,
                   fatal, opened, freed, bound>>

\* ---- lines 373-380: SSL_new() ----
SslNew ==
    /\ pc = "ssl_new"
    /\ \E ok \in BOOLEAN :
          IF ok
            THEN /\ ssl' = "live"
                 /\ it' = [it EXCEPT !.created = TRUE]
                 /\ UNCHANGED <<sock, count_fail, gaip>>
                 /\ pc' = "bind"
            ELSE /\ ssl' = "none"
                 /\ sock' = "closed"
                 /\ it' = [it EXCEPT !.closes = @ + 1, !.fbumps = @ + 1]
                 /\ count_fail' = count_fail + 1
                 /\ gaip' = gaip + 1
                 /\ pc' = "loop_test"
    /\ UNCHANGED <<config, evidence, attempt_dane, count_success,
                   count_tlsa_usable, rp, ctx, uaf, uac, exit_status,
                   fatal, totals>>

\* Variant of Abandon without "close(sock)".
Abandon_leaks_socket(i) ==
    /\ ssl' = "freed"
    /\ sock' = sock
    /\ uaf' = (uaf \/ ssl = "freed")
    /\ uac' = uac
    /\ it' = [i EXCEPT !.frees = @ + 1, !.fbumps = @ + 1]
    /\ count_fail' = count_fail + 1
    /\ gaip' = gaip + 1
    /\ pc' = "loop_test"

\* The sequence "SSL_free(ssl); close(sock); count_fail++; continue;" that
\* ends an iteration (lines 393-396, 404-407, 448-451, 458-461, 468-471),
\* applied to the bookkeeping record i.
Abandon(i) ==
    /\ ssl' = "freed"
    /\ sock' = "closed"
    /\ uaf' = (uaf \/ ssl = "freed")
    /\ uac' = (uac \/ sock = "closed")
    /\ it' = [i EXCEPT !.frees = @ + 1, !.closes = @ + 1, !.fbumps = @ + 1]
    /\ count_fail' = count_fail + 1
    /\ gaip' = gaip + 1
    /\ pc' = "loop_test"

\* Variant of Bind that falls back to PKIX policy once an address failed.
Bind_pkix_after_failure ==
    /\ pc = "bind"
    /\ \E ok \in BOOLEAN :
          IF ok
            THEN /\ it' = IF attempt_dane /\ count_fail = 0
                            THEN [it EXCEPT !.dane_on = TRUE]
                            ELSE [it EXCEPT !.host = TRUE, !.sni = TRUE]
                 /\ bound' = bound \cup {IF attempt_dane /\ count_fail = 0
                                           THEN "dane" ELSE "pkix"}
                 /\ rp' = 1
                 /\ pc' = "tlsa_loop"
                 /\ UNCHANGED <<ssl, sock, uaf, uac, count_fail, gaip>>
            ELSE /\ Abandon([it EXCEPT !.bindfail = TRUE])
                 /\ bound' = bound
                 /\ rp' = rp
    /\ UNCHANGED <<config, evidence, attempt_dane, count_success,
                   count_tlsa_usable, ctx, exit_status, fatal, opened,
                   contacted, freed>>

\* ---- lines 388-421: SSL_dane_enable, or SSL_set1_host and the SNI ----
Bind ==
    /\ pc = "bind"
    /\ \E ok \in BOOLEAN :
          IF ok
            THEN /\ it' = IF attempt_dane
                            THEN [it EXCEPT !.dane_on = TRUE]
                            ELSE [it EXCEPT !.host = TRUE, !.sni = TRUE]
                 /\ bound' = bound \cup {IF attempt_dane THEN "dane"
                                                          ELSE "pkix"}
                 /\ rp' = 1
                 /\ pc' = "tlsa_loop"
                 /\ UNCHANGED <<ssl, sock, uaf, uac, count_fail, gaip>>
            ELSE /\ Abandon([it EXCEPT !.bindfail = TRUE])
                 /\ bound' = bound
                 /\ rp' = rp
    /\ UNCHANGED <<config, evidence, attempt_dane, count_success,
                   count_tlsa_usable, ctx, exit_status, fatal, opened,
                   contacted, freed>>

\* ---- lines 427-428: the results of SSL_dane_tlsa_add for record r of
\* list l on session s. On a live session a record the library can use gives
\* 1 and one it cannot use gives 0, whichever address the session is for;
\* -1 is an internal error. On a freed session the result is arbitrary.
AddResults(s, l, r) ==
    IF s = "live" THEN {-1, IF l[r] THEN 1 ELSE 0} ELSE {-1, 0, 1}

\* Variant of TlsaAdd that counts an unusable record as a failure.
TlsaAdd_unusable_counts ==
    /\ pc = "tlsa_loop"
    /\ attempt_dane
    /\ rp <= ntlsa
    /\ \E rc \in AddResults(ssl, tlsa_rdata_list, rp) :
          LET i == [it EXCEPT !.adds = @ + 1, !.late = (@ \/ it.bindfail)]
          IN  /\ uaf' = (uaf \/ ssl = "freed")
              /\ IF rc < 0
                   THEN /\ ssl' = "freed"
                        /\ sock' = "closed"
                        /\ uac' = (uac \/ sock = "closed")
                        /\ it' = [i EXCEPT !.frees = @ + 1, !.closes = @ + 1,
                                           !.fbumps = @ + 1,
                                           !.bindfail = TRUE]
                        /\ count_fail' = count_fail + 1
                        /\ count_tlsa_usable' = count_tlsa_usable
                 ELSE IF rc = 0
                   THEN /\ it' = [i EXCEPT !.fbumps = @ + 1]
                        /\ count_fail' = count_fail + 1
                        /\ UNCHANGED <<ssl, sock, uac, count_tlsa_usable>>
                 ELSE /\ it' = [i EXCEPT !.usable = @ + 1]
                      /\ count_tlsa_usable' = count_tlsa_usable + 1
                      /\ UNCHANGED <<ssl, sock, uac, count_fail>>
    /\ rp' = rp + 1
    /\ UNCHANGED <<pc, config, evidence, attempt_dane, count_success, gaip,
                   ctx, exit_status, fatal, totals>>

\* ---- lines 424-443: one pass of the inner loop over the TLSA records.
\* The "continue" of line 435 is inside this for loop: after the session is
\* freed and the socket closed, control goes to "rp = rp->next".
TlsaAdd ==
    /\ pc = "tlsa_loop"
    /\ attempt_dane
    /\ rp <= ntlsa
    /\ \E rc \in AddResults(ssl, tlsa_rdata_list, rp) :
          LET i == [it EXCEPT !.adds = @ + 1, !.late = (@ \/ it.bindfail)]
          IN  /\ uaf' = (uaf \/ ssl = "freed")
              /\ IF rc < 0
                   THEN /\ ssl' = "freed"
                        /\ sock' = "closed"
                        /\ uac' = (uac \/ sock = "closed")
                        /\ it' = [i EXCEPT !.frees = @ + 1, !.closes = @ + 1,
                                           !.fbumps = @ + 1,
                                           !.bindfail = TRUE]
                        /\ count_fail' = count_fail + 1
                        /\ count_tlsa_usable' = count_tlsa_usable
                 ELSE IF rc = 0
                   THEN /\ it' = i
                        /\ UNCHANGED <<ssl, sock, uac, count_fail,
                                       count_tlsa_usable>>
                 ELSE /\ it' = [i EXCEPT !.usable = @ + 1]
                      /\ count_tlsa_usable' = count_tlsa_usable + 1
                      /\ UNCHANGED <<ssl, sock, uac, count_fail>>
    /\ rp' = rp + 1
    /\ UNCHANGED <<pc, config, evidence, attempt_dane, count_success, gaip,
                   ctx, exit_status, fatal, totals>>

\* ---- lines 424, 426: no DANE, or the record list is exhausted ----
TlsaDone ==
    /\ pc = "tlsa_loop"
    /\ ~attempt_dane \/ rp > ntlsa
    /\ pc' = "usable_check"
    /\ UNCHANGED <<config, evidence, attempt_dane, counters, gaip, rp, ctx,
                   session, exit_status, fatal, totals>>

\* Variant of UsableCheck whose test is "auth_mode != MODE_PKIX".
UsableCheck_any_dane_mode ==
    /\ pc = "usable_check"
    /\ IF auth_mode # MODE_PKIX /\ count_tlsa_usable = 0
         THEN Abandon(it)
         ELSE /\ pc' = "starttls"
              /\ UNCHANGED <<ssl, sock, uaf, uac, it, count_fail, gaip>>
    /\ UNCHANGED <<config, evidence, attempt_dane, count_success,
                   count_tlsa_usable, rp, ctx, exit_status, fatal, totals>>

\* ---- lines 446-452 ----
UsableCheck ==
    /\ pc = "usable_check"
    /\ IF auth_mode = MODE_DANE /\ count_tlsa_usable = 0
         THEN Abandon(it)
         ELSE /\ pc' = "starttls"
              /\ UNCHANGED <<ssl, sock, uaf, uac, it, count_fail, gaip>>
    /\ UNCHANGED <<config, evidence, attempt_dane, count_success,
                   count_tlsa_usable, rp, ctx, exit_status, fatal, totals>>

\* Variant of StartTls that goes on to the handshake after a failed
\* negotiation.
StartTls_ignores_failure ==
    /\ pc = "starttls"
    /\ IF starttls
         THEN \E ok \in BOOLEAN :
                /\ it' = [it EXCEPT !.negotiated = IF ok THEN "ok" ELSE "failed",
                                    !.late = (@ \/ it.bindfail)]
                /\ uaf' = (uaf \/ ssl = "freed")
                /\ uac' = (uac \/ sock = "closed")
                /\ pc' = "handshake"
                /\ UNCHANGED <<ssl, sock, count_fail, gaip>>
         ELSE /\ pc' = "handshake"
              /\ UNCHANGED <<ssl, sock, uaf, uac, it, count_fail, gaip>>
    /\ UNCHANGED <<config, evidence, attempt_dane, count_success,
                   count_tlsa_usable, rp, ctx, exit_status, fatal, totals>>

\* ---- lines 455-462: do_starttls() on the socket BIO ----
StartTls ==
    /\ pc = "starttls"
    /\ IF starttls
         THEN \E ok \in BOOLEAN :
                LET i == [it EXCEPT !.negotiated = IF ok THEN "ok" ELSE "failed",
                                    !.late = (@ \/ it.bindfail)]
                IN  IF ok
                      THEN /\ it' = i
                           /\ uaf' = (uaf \/ ssl = "freed")
                           /\ uac' = (uac \/ sock = "closed")
                           /\ pc' = "handshake"
                           /\ UNCHANGED <<ssl, sock, count_fail, gaip>>
                      ELSE Abandon(i)
         ELSE /\ pc' = "handshake"
              /\ UNCHANGED <<ssl, sock, uaf, uac, it, count_fail, gaip>>
    /\ UNCHANGED <<config, evidence, attempt_dane, count_success,
                   count_tlsa_usable, rp, ctx, exit_status, fatal, totals>>

\* ---- lines 465-472: SSL_connect() ----
Handshake ==
    /\ pc = "handshake"
    /\ \E ok \in BOOLEAN :
          LET i == [it EXCEPT !.handshakes = @ + 1,
                              !.late = (@ \/ it.bindfail),
                              !.early = (@ \/ ~it.connected
                                           \/ (starttls /\ it.negotiated # "ok"))]
          IN  IF ok
                THEN /\ it' = [i EXCEPT !.shaken = TRUE]
                     /\ uaf' = (uaf \/ ssl = "freed")
                     /\ uac' = (uac \/ sock = "closed")
                     /\ pc' = "verify"
                     /\ UNCHANGED <<ssl, sock, count_fail, gaip>>
                ELSE Abandon(i)
    /\ UNCHANGED <<config, evidence, attempt_dane, count_success,
                   count_tlsa_usable, rp, ctx, exit_status, fatal, totals>>

\* Variant of Verify that treats a missing peer name as a failure.
Verify_peername_required ==
    /\ pc = "verify"
    /\ uaf' = (uaf \/ ssl = "freed")
    /\ \E ok \in BOOLEAN, peername \in BOOLEAN, depth \in {-1, 0} :
          IF ok
            THEN /\ count_success' = IF peername THEN count_success + 1
                                     ELSE count_success
                 /\ count_fail' = IF peername THEN count_fail
                                  ELSE count_fail + 1
                 /\ it' = [it EXCEPT !.sbumps = IF peername THEN @ + 1 ELSE @,
                                     !.fbumps = IF peername THEN @ ELSE @ + 1,
                                     !.verified = "ok",
                                     !.peername = IF peername THEN "present"
                                                  ELSE "absent",
                                     !.depth = depth]
            ELSE /\ count_fail' = count_fail + 1
                 /\ count_success' = count_success
                 /\ it' = [it EXCEPT !.fbumps = @ + 1, !.verified = "bad"]
    /\ pc' = "shutdown"
    /\ UNCHANGED <<config, evidence, attempt_dane, count_tlsa_usable, gaip,
                   rp, ctx, ssl, sock, uac, exit_status, fatal, totals>>

\* ---- lines 484-515: SSL_get_verify_result() and the diagnostics.
\* peername and depth are the values of SSL_get0_peername and
\* SSL_get0_dane_authority; they are read only when the result is X509_V_OK.
Verify ==
    /\ pc = "verify"
    /\ uaf' = (uaf \/ ssl = "freed")
    /\ \E ok \in BOOLEAN, peername \in BOOLEAN, depth \in {-1, 0} :
          IF ok
            THEN /\ count_success' = count_success + 1
                 /\ count_fail' = count_fail
                 /\ it' = [it EXCEPT !.sbumps = @ + 1, !.verified = "ok",
                                     !.peername = IF peername THEN "present"
                                                  ELSE "absent",
                                     !.depth = depth]
            ELSE /\ count_fail' = count_fail + 1
                 /\ count_success' = count_success
                 /\ it' = [it EXCEPT !.fbumps = @ + 1, !.verified = "bad"]
    /\ pc' = "shutdown"
    /\ UNCHANGED <<config, evidence, attempt_dane, count_tlsa_usable, gaip,
                   rp, ctx, ssl, sock, uac, exit_status, fatal, totals>>

\* ---- lines 518-519: while (SSL_shutdown(ssl) == 0) ; ----
\* The loop has no bound of its own; the model stops offering the result 0
\* after MaxShutdown calls. The locals peername and depth of the block of
\* lines 486-509 are out of scope here.
Shutdown ==
    /\ pc = "shutdown"
    /\ uaf' = (uaf \/ ssl = "freed")
    /\ uac' = (uac \/ sock = "closed")
    /\ \E r \in {-1, 0, 1} :
          /\ r = 0 => it.shutdowns < MaxShutdown
          /\ it' = [it EXCEPT !.shutdowns = @ + 1,
                              !.peername = "unread", !.depth = -2]
          /\ pc' = IF r = 0 THEN "shutdown" ELSE "release"
    /\ UNCHANGED <<config, evidence, attempt_dane, counters, gaip, rp, ctx,
                   ssl, sock, exit_status, fatal, totals>>

\* ---- lines 520-524: SSL_free, close, next address ----
Release ==
    /\ pc = "release"
    /\ ssl' = "freed"
    /\ sock' = "closed"
    /\ uaf' = (uaf \/ ssl = "freed")
    /\ uac' = (uac \/ sock = "closed")
    /\ it' = [it EXCEPT !.frees = @ + 1, !.closes = @ + 1]
    /\ gaip' = gaip + 1
    /\ pc' = "loop_test"
    /\ UNCHANGED <<config, evidence, attempt_dane, counters, rp, ctx,
                   exit_status, fatal, totals>>

\* The step at pc passes the session pointer "ssl" (or its BIO) to OpenSSL.
UsesSession ==
    \/ pc = "tlsa_loop" /\ attempt_dane /\ rp <= ntlsa
    \/ pc = "usable_check" /\ auth_mode = MODE_DANE /\ count_tlsa_usable = 0
    \/ pc = "starttls" /\ starttls
    \/ pc \in {"handshake", "verify", "shutdown", "release"}

\* ---- lines 427-521 after line 432: a call on a session that was already
\* freed is undefined; one outcome is that the process is killed.
UseAfterFreeCrash ==
    /\ UsesSession
    /\ ssl = "freed"
    /\ pc' = "crashed"
    /\ uaf' = TRUE
    /\ UNCHANGED <<config, evidence, attempt_dane, counters, gaip, rp, ctx,
                   ssl, sock, uac, it, exit_status, fatal, totals>>

\* Variant of Cleanup that never releases the shared TLS context.
Cleanup_ctx_leak ==
    /\ pc = "cleanup"
    /\ ctx' = ctx
    /\ freed' = [freed EXCEPT !.addr = @ + 1, !.tlsa = @ + 1]
    /\ pc' = "classify"
    /\ UNCHANGED <<config, evidence, attempt_dane, counters, gaip, rp,
                   session, exit_status, fatal, opened, contacted, bound>>

\* ---- lines 526-530 ----
Cleanup ==
    /\ pc = "cleanup"
    /\ IF ctx # "null"
         THEN /\ ctx' = "freed"
              /\ freed' = [freed EXCEPT !.addr = @ + 1, !.tlsa = @ + 1,
                                        !.ctx = @ + 1]
         ELSE /\ ctx' = ctx
              /\ freed' = [freed EXCEPT !.addr = @ + 1, !.tlsa = @ + 1]
    /\ pc' = "classify"
    /\ UNCHANGED <<config, evidence, attempt_dane, counters, gaip, rp,
                   session, exit_status, fatal, opened, contacted, bound>>

\* Variant of classify whose first test omits "count_success > 0".
classify_no_success_test(succeeded, failed) ==
    IF failed = 0 THEN 0
    ELSE IF succeeded > 0 /\ failed # 0 THEN 1
    ELSE 2

\* ---- lines 539-544 ----
classify(succeeded, failed) ==
    IF succeeded > 0 /\ failed = 0 THEN 0
    ELSE IF succeeded > 0 /\ failed # 0 THEN 1
    ELSE 2

Classify ==
    /\ pc = "classify"
    /\ exit_status' = classify(count_success, count_fail)
    /\ pc' = "done"
    /\ UNCHANGED <<config, evidence, attempt_dane, counters, gaip, rp, ctx,
                   session, fatal, totals>>

Next ==
    \/ ResolverFail
    \/ Resolve
    \/ CheckBogus
    \/ SelectMode
    \/ CtxInit
    \/ CtxDaneEnable
    \/ LoopTest
    \/ Socket
    \/ Connect
    \/ SslNew
    \/ Bind
    \/ TlsaAdd
    \/ TlsaDone
    \/ UsableCheck
    \/ StartTls
    \/ Handshake
    \/ Verify
    \/ Shutdown
    \/ Release
    \/ UseAfterFreeCrash
    \/ Cleanup
    \/ Classify

Spec == Init /\ [][Next]_vars

(***************************************************************************)
(* Properties                                                              *)
(***************************************************************************)

\* The conjunction of section 3 of the specification.
Eligible ==
    /\ auth_mode # MODE_PKIX
    /\ ntlsa > 0
    /\ tlsa_authenticated
    /\ v4_authenticated
    /\ v6_authenticated
    /\ ~dns_bogus_or_indeterminate

\* Some piece of the DANE evidence is missing or unauthenticated.
DaneEvidenceLacking ==
    \/ ntlsa = 0
    \/ ~tlsa_authenticated
    \/ ~v4_authenticated
    \/ ~v6_authenticated

PreSelect == {"start", "check_bogus", "select"}
Ending == {"cleanup", "classify", "done"}
InSession == {"tlsa_loop", "usable_check", "starttls", "handshake", "verify",
              "shutdown", "release"}
\* An iteration of the address loop has just ended; "it", "ssl" and "sock"
\* describe that iteration.
IterationEnded == pc = "loop_test" /\ gaip > 1

\* C1: once the mode selection has run (or was skipped by an abort),
\* attempt_dane is true exactly when the mode is not PKIX-only, the TLSA set
\* is non-empty, the TLSA set and both address families are authenticated
\* and the evidence is not bogus or indeterminate.
C1_AttemptDaneIffEligible ==
    pc \notin PreSelect => (attempt_dane <=> Eligible)

C1_Witness ==
    pc = "ctx_init" /\ attempt_dane /\ auth_mode = MODE_BOTH

\* C2: with the bogus/indeterminate flag set, every mode aborts: no socket,
\* no connect, the loop is not entered, no TLS context is created, the
\* counters stay zero and the exit status is 2.
C2_BogusAbortsEveryMode ==
    (dns_bogus_or_indeterminate /\ pc # "check_bogus") =>
        /\ pc \in Ending
        /\ fatal = "bogus"
        /\ opened = 0 /\ contacted = 0 /\ gaip = 0
        /\ ctx = "null"
        /\ count_success = 0 /\ count_fail = 0
        /\ (pc = "done" => exit_status = 2)

C2_Witness ==
    /\ pc = "done" /\ dns_bogus_or_indeterminate /\ auth_mode = MODE_PKIX
    /\ naddr > 0

\* C3: in DANE-only mode, when DANE cannot be attempted the run goes
\* straight to the end: loop never entered, nothing contacted, exit status 2.
C3_DaneOnlyWithoutEvidenceIsFatal ==
    (auth_mode = MODE_DANE /\ pc \notin PreSelect /\ DaneEvidenceLacking) =>
        /\ pc \in Ending
        /\ gaip = 0 /\ opened = 0 /\ contacted = 0
        /\ (pc = "done" => exit_status = 2)

C3_Witness ==
    /\ pc = "done" /\ auth_mode = MODE_DANE /\ fatal = "dane_evidence"
    /\ ntlsa > 0 /\ tlsa_authenticated /\ v4_authenticated
    /\ ~v6_authenticated /\ naddr > 0

\* C4: in DANE-with-fallback and PKIX-only mode, with evidence that is not
\* bogus, lacking DANE evidence is not fatal (the only aborts left are the
\* trust store and the context), the loop runs over every address, each
\* session is bound with PKIX policy (SSL_set1_host and explicit SNI, no
\* SSL_dane_enable, no SSL_dane_tlsa_add), and each address is counted once.
C4_FallbackUsesPkix ==
    (/\ auth_mode \in {MODE_BOTH, MODE_PKIX}
     /\ pc \notin PreSelect
     /\ fatal # "resolver"
     /\ ~dns_bogus_or_indeterminate
     /\ DaneEvidenceLacking) =>
        /\ fatal \in {"none", "castore", "ctx_dane"}
        /\ pc # "crashed"
        /\ (fatal = "none" /\ pc \in Ending => gaip = naddr + 1)
        /\ ~it.dane_on /\ it.adds = 0
        /\ (pc \in InSession => it.host /\ it.sni)
        /\ (it.handshakes > 0 => it.host /\ it.sni)
        /\ (IterationEnded => it.sbumps + it.fbumps = 1)
        /\ (pc = "done" /\ fatal = "none" =>
                count_success + count_fail = naddr)

C4_Witness ==
    /\ pc = "done" /\ auth_mode = MODE_BOTH /\ fatal = "none"
    /\ ntlsa > 0 /\ ~tlsa_authenticated
    /\ count_success > 0 /\ count_fail > 0

\* C5: the exit status is 0 exactly for succeeded > 0 and failed = 0,
\* 1 exactly for succeeded > 0 and failed > 0, 2 exactly for succeeded = 0.
C5_ExitStatus ==
    pc = "done" =>
        /\ (exit_status = 0 <=> (count_success > 0 /\ count_fail = 0))
        /\ (exit_status = 1 <=> (count_success > 0 /\ count_fail > 0))
        /\ (exit_status = 2 <=> count_success = 0)

C5_Witness ==
    pc = "done" /\ exit_status = 1 /\ fatal = "none"

\* C6: every address changes the totals exactly once, so after the loop
\* succeeded + failed = N, and the exit status is 2 for k = 0 successes,
\* 0 for k = N and 1 in between.
C6_CountedOncePerAddress ==
    /\ IterationEnded => it.sbumps + it.fbumps = 1
    /\ (pc = "done" /\ fatal = "none") =>
          /\ count_success + count_fail = naddr
          /\ exit_status = IF count_success = 0 THEN 2
                           ELSE IF count_success = naddr THEN 0 ELSE 1

\* C7: in every iteration the socket is closed exactly once and a created
\* session is freed exactly once.
C7_ReleasedExactlyOnce ==
    /\ it.closes <= 1
    /\ it.frees <= 1
    /\ IterationEnded =>
          /\ it.closes = IF sock = "none" THEN 0 ELSE 1
          /\ it.frees = IF it.created THEN 1 ELSE 0

\* C8: a run without a fatal abort that has ended has attempted every
\* resolved address and has reached the exit-status computation.
C8_FailureNeverEndsRun ==
    (pc \in {"done", "crashed"} /\ fatal = "none") =>
        (pc = "done" /\ gaip = naddr + 1)

\* C9: every fatal abort happens before any socket or connect, ends with
\* exit status 2, and releases the address list and the TLSA set once and
\* the TLS context once if it was created.
C9_FatalAbort ==
    fatal # "none" =>
        /\ pc \in Ending
        /\ opened = 0 /\ contacted = 0
        /\ (fatal \in {"castore", "ctx_dane"} <=> ctx # "null")
        /\ (pc \in {"classify", "done"} =>
                /\ freed.addr = 1 /\ freed.tlsa = 1
                /\ freed.ctx = IF ctx = "null" THEN 0 ELSE 1
                /\ ctx # "live")
        /\ (pc = "done" => exit_status = 2)

C9_Witness ==
    pc = "done" /\ fatal = "ctx_dane" /\ freed.ctx = 1 /\ naddr > 0

BetweenAddresses == {"loop_test", "socket", "cleanup", "classify", "done"}

\* C11: in DANE-only mode an address whose own session got no usable TLSA
\* record is given neither a STARTTLS negotiation nor a handshake, whatever
\* was counted for earlier addresses.
C11_ZeroUsableAbortsPerAddress ==
    (auth_mode = MODE_DANE /\ it.created /\ it.usable = 0) =>
        (it.negotiated = "no" /\ it.handshakes = 0)

\* C12: SSL_connect is called only after connect() succeeded and, with a
\* STARTTLS protocol configured, only after do_starttls returned success; a
\* failed negotiation ends the iteration without a handshake and with a
\* failure counted; without a STARTTLS protocol do_starttls is never called.
C12_HandshakeAfterConnectAndStartTls ==
    /\ ~it.early
    /\ it.handshakes > 0 =>
          (it.connected /\ (starttls => it.negotiated = "ok"))
    /\ it.negotiated # "no" => (starttls /\ it.connected)
    /\ it.negotiated = "failed" =>
          /\ pc \in BetweenAddresses
          /\ it.handshakes = 0
          /\ it.sbumps = 0
          /\ it.fbumps >= 1
          /\ (~it.bindfail => it.fbumps = 1)

C12_Witness ==
    IterationEnded /\ it.negotiated = "failed" /\ it.fbumps = 1

\* C13: count_success changes only in the verification step of an address
\* whose handshake completed and whose result is X509_V_OK, by exactly one;
\* a result that is not OK adds one to count_fail and nothing to
\* count_success; the peer name and DANE authority read afterwards have no
\* influence on either counter.
C13_SuccessOnlyOnVerifiedOk ==
    [][/\ count_success' # count_success =>
              /\ pc = "verify"
              /\ it.shaken
              /\ it'.verified = "ok"
              /\ count_success' = count_success + 1
              /\ count_fail' = count_fail
       /\ (pc = "verify" /\ pc' = "shutdown") =>
              IF it'.verified = "ok"
                THEN /\ count_success' = count_success + 1
                     /\ count_fail' = count_fail
                ELSE /\ it'.verified = "bad"
                     /\ count_fail' = count_fail + 1
                     /\ count_success' = count_success]_vars

C13_Witness ==
    /\ pc = "shutdown" /\ it.verified = "ok"
    /\ it.peername = "absent" /\ it.depth = -1
    /\ it.sbumps = 1 /\ it.fbumps = 0

\* C14: SSL_shutdown is called at most twice per address (the first call
\* and one retry).
C14_ShutdownAtMostOneRetry ==
    it.shutdowns <= 2

\* C15: between two iterations and from the end of the loop on, the socket
\* of the last iteration is not open and its session is not live.
C15_NothingLeftOpen ==
    pc \in BetweenAddresses => (sock # "open" /\ ssl # "live")

C15_Witness ==
    /\ pc = "socket" /\ gaip = 2
    /\ sock = "closed" /\ ssl = "freed"
    /\ it.fbumps = 1 /\ it.handshakes = 1

\* C16: attempt_dane changes in the mode selection only, and all sessions of
\* a run are bound with one policy, the one attempt_dane names.
C16_OneVerdictPerRun ==
    /\ [](/\ Cardinality(bound) <= 1
          /\ bound # {} =>
                bound = {IF attempt_dane THEN "dane" ELSE "pkix"}
          /\ it.dane_on => (attempt_dane /\ ~it.host /\ ~it.sni)
          /\ it.host => (~attempt_dane /\ it.sni /\ it.adds = 0))
    /\ [][pc # "select" => attempt_dane' = attempt_dane]_vars

C16_Witness ==
    /\ pc = "tlsa_loop" /\ gaip = 2 /\ it.dane_on
    /\ bound = {"dane"} /\ count_fail > 0

\* C17: an SSL_dane_tlsa_add that reports the record unusable leaves the
\* session, the socket and count_fail alone and moves to the next record;
\* the record loop ends only after the last record; and with a usable
\* record in the session the address goes on to STARTTLS.
C17_UnusableRecordIsAdvisory ==
    [][/\ (/\ pc = "tlsa_loop"
           /\ it'.adds = it.adds + 1
           /\ it'.usable = it.usable
           /\ it'.frees = it.frees) =>
              /\ pc' = "tlsa_loop"
              /\ rp' = rp + 1
              /\ count_fail' = count_fail
              /\ it'.fbumps = it.fbumps
              /\ ssl' = ssl /\ sock' = sock
       /\ (pc = "tlsa_loop" /\ pc' = "usable_check" /\ attempt_dane) =>
              (rp = ntlsa + 1 /\ it.adds = ntlsa)
       /\ (pc = "usable_check" /\ it.usable >= 1) =>
              (pc' = "starttls" /\ count_fail' = count_fail /\ it' = it)
      ]_vars

C17_Witness ==
    /\ pc = "handshake" /\ it.adds = 2 /\ it.usable = 1
    /\ tlsa_rdata_list = <<FALSE, TRUE>>
    /\ ~it.bindfail /\ it.fbumps = 0

\* C18: no call uses a session after SSL_free or a socket after close.
C18_NoUseAfterRelease ==
    ~uaf /\ ~uac

\* C19: in DANE-with-fallback mode a DANE session whose records were all
\* reported unusable keeps its DANE binding (no SSL_set1_host, no explicit
\* SNI), goes on to STARTTLS or the handshake, and is counted once, by the
\* outcome of STARTTLS, handshake or verification.
C19_FallbackModeKeepsZeroUsableSession ==
    (/\ auth_mode = MODE_BOTH
     /\ it.dane_on
     /\ it.usable = 0
     /\ ~it.bindfail) =>
        /\ ~it.host /\ ~it.sni
        /\ IterationEnded =>
              /\ it.adds = ntlsa
              /\ IF starttls THEN it.negotiated # "no"
                             ELSE it.handshakes = 1
              /\ it.sbumps + it.fbumps = 1
              /\ it.sbumps = 1 <=> it.verified = "ok"
              /\ it.fbumps = 1 =>
                    \/ it.negotiated = "failed"
                    \/ (it.handshakes = 1 /\ ~it.shaken)
                    \/ it.verified = "bad"

C19_Witness ==
    /\ IterationEnded /\ auth_mode = MODE_BOTH /\ it.dane_on
    /\ ntlsa > 0 /\ it.adds = ntlsa /\ it.usable = 0 /\ ~it.bindfail
    /\ it.verified = "ok"

\* C20: exit status 0 means that at least one address was resolved, the
\* loop went through all of them, each was connected and verified OK and
\* none failed at any step.
C20_ExitZeroMeansAllVerified ==
    /\ it.sbumps <= 1
    /\ (pc = "done" /\ exit_status = 0) =>
          /\ naddr > 0
          /\ fatal = "none"
          /\ gaip = naddr + 1
          /\ opened = naddr /\ contacted = naddr
          /\ count_success = naddr
          /\ count_fail = 0
          /\ it.verified = "ok" /\ it.shaken /\ it.fbumps = 0
          /\ ~uaf

C20_Witness ==
    pc = "done" /\ exit_status = 0 /\ naddr = 2
====
